---- MODULE Spec2Model ----
(***************************************************************************)
(* Model of the gauge display loop of PiRudderTach.py: the serial link     *)
(* manager (try_open_serial / close_serial), the frame parser and smoother *)
(* (process_serial_data, map_value), the staleness fallback                *)
(* (set_no_data_state) and the render loop with its shutdown sequence.     *)
(*                                                                         *)
(* Numbers that Python holds as floats are modelled as exact rationals     *)
(* <<n, d>> in lowest terms with d > 0.  Time is the value of              *)
(* time.monotonic() counted in units of 1/TicksPerSecond seconds.          *)
(***************************************************************************)
EXTENDS Integers, Sequences, FiniteSets, TLC

VARIABLES
    pc,                     \* position of the single thread in the script
    clock,                  \* time.monotonic()
    running,                \* loop-continuation flag (line 366)
    ser,                    \* serial handle, NoSerial for None (line 49)
    opened,                 \* number of handles serial.Serial() has returned
    closed,                 \* handles on which close() has been called
    last_serial_try_time,   \* line 50
    last_good_frame_time,   \* line 51
    rudder_angle,           \* line 55
    engine_rpm,             \* line 56
    smoothed_engine_rpm,    \* line 57
    smoothed_rudder_angle,  \* line 58
    shift_indicator,        \* line 59, <<>> for None, <<v>> otherwise
    fuel_consumption,       \* line 60, <<>> for None, <<rational>> otherwise
    raw,                    \* result of the last ser.readline() (line 119)
    pot_value,              \* local of process_serial_data (line 131)
    pot_value2,             \* local of process_serial_data (line 132)
    new_rudder_angle,       \* local of process_serial_data (line 136)
    new_engine_rpm,         \* local of process_serial_data (line 137)
    nlines,                 \* number of non-empty lines the device has sent
    attempts                \* history: the time of every serial.Serial() call

display == <<rudder_angle, engine_rpm, smoothed_rudder_angle,
             smoothed_engine_rpm, shift_indicator, fuel_consumption>>
link    == <<ser, opened, closed>>
locals  == <<pot_value, pot_value2, new_rudder_angle, new_engine_rpm>>
vars    == <<pc, clock, running, ser, opened, closed, last_serial_try_time,
             last_good_frame_time, rudder_angle, engine_rpm,
             smoothed_engine_rpm, smoothed_rudder_angle, shift_indicator,
             fuel_consumption, raw, pot_value, pot_value2, new_rudder_angle,
             new_engine_rpm, nlines, attempts>>

----------------------------------------------------------------------------
(* Bounds of the model *)
TicksPerSecond == 2
MaxSeconds     == 5
MaxLines       == 3

MaxTime == MaxSeconds * TicksPerSecond

(* Program constants *)
DATA_STALE_SECONDS   == 1
SERIAL_RETRY_SECONDS == 2
POT_MAX              == 4095
TRIM_AT_POT_MIN      == 240
TRIM_AT_POT_MAX      == 120
RPM_MAX              == 6000
CENTER_RUDDER        == 180
CENTER_RPM           == 3000
MIN_FIELDS           == 4

NoSerial == 0

----------------------------------------------------------------------------
(* Exact rational arithmetic *)
RECURSIVE GCD(_, _)
GCD(a, b) == IF b = 0 THEN a ELSE GCD(b, a % b)

Abs(x) == IF x < 0 THEN -x ELSE x

Rat(n, d) ==
    LET s == IF d < 0 THEN -1 ELSE 1
        g == GCD(Abs(n), Abs(d))
    IN  <<(s * n) \div g, (s * d) \div g>>

RatOfInt(i)  == <<i, 1>>
RatAdd(a, b) == Rat(a[1] * b[2] + b[1] * a[2], a[2] * b[2])
RatMul(a, b) == Rat(a[1] * b[1], a[2] * b[2])
RatLeq(a, b) == a[1] * b[2] <= b[1] * a[2]

----------------------------------------------------------------------------
(* Bytes and text.  A line is a sequence of one-character symbols; "LF" is *)
(* the newline and "XFF" a byte that is not valid UTF-8.                   *)
Digits     == <<"0", "1", "2", "3", "4", "5", "6", "7", "8", "9">>
DigitSet   == {Digits[i] : i \in 1..10}
Whitespace == {" ", "LF"}

DigitVal(c) == (CHOOSE i \in 1..10 : Digits[i] = c) - 1

RECURSIVE DigitsVal(_)
DigitsVal(s) ==
    IF s = <<>> THEN 0
    ELSE 10 * DigitsVal(SubSeq(s, 1, Len(s) - 1)) + DigitVal(s[Len(s)])

RECURSIVE Pow10(_)
Pow10(k) == IF k = 0 THEN 1 ELSE 10 * Pow10(k - 1)

AllDigits(s) == \A i \in 1..Len(s) : s[i] \in DigitSet

(* bytes.decode("utf-8", errors="ignore"): undecodable bytes are dropped *)
decode(b) == SelectSeq(b, LAMBDA c : c # "XFF")

(* str.strip(): leading and trailing whitespace removed *)
RECURSIVE lstrip(_)
lstrip(s) == IF s # <<>> /\ s[1] \in Whitespace THEN lstrip(Tail(s)) ELSE s

RECURSIVE rstrip(_)
rstrip(s) ==
    IF s # <<>> /\ s[Len(s)] \in Whitespace
    THEN rstrip(SubSeq(s, 1, Len(s) - 1)) ELSE s

strip(s) == rstrip(lstrip(s))

(* str.split(","): always at least one field, empty fields kept *)
RECURSIVE split(_)
split(s) ==
    IF \A i \in 1..Len(s) : s[i] # ","
    THEN <<s>>
    ELSE LET k == CHOOSE i \in 1..Len(s) :
                     s[i] = "," /\ \A j \in 1..(i - 1) : s[j] # ","
         IN  <<SubSeq(s, 1, k - 1)>> \o split(SubSeq(s, k + 1, Len(s)))

Unsigned(t) == IF t # <<>> /\ t[1] \in {"-", "+"} THEN Tail(t) ELSE t
SignOf(t)   == IF t # <<>> /\ t[1] = "-" THEN -1 ELSE 1

(* int(str): optional sign and decimal digits, surrounding whitespace     *)
(* allowed; ok = FALSE stands for ValueError                              *)
py_int(s) ==
    LET t == strip(s)
        u == Unsigned(t)
    IN  IF u # <<>> /\ AllDigits(u)
        THEN [ok |-> TRUE,  val |-> SignOf(t) * DigitsVal(u)]
        ELSE [ok |-> FALSE, val |-> 0]

(* float(str) on plain decimal literals: digits with at most one point    *)
py_float_lenient(s) == [ok |-> TRUE, val |-> RatOfInt(0)]

py_float(s) ==
    LET t    == strip(s)
        u    == Unsigned(t)
        pts  == {i \in 1..Len(u) : u[i] = "."}
        k    == IF pts = {} THEN Len(u) + 1 ELSE CHOOSE i \in pts : TRUE
        ip   == SubSeq(u, 1, k - 1)
        fp   == SubSeq(u, k + 1, Len(u))
    IN  IF Cardinality(pts) <= 1 /\ AllDigits(ip) /\ AllDigits(fp)
           /\ Len(ip) + Len(fp) >= 1
        THEN [ok |-> TRUE,
              val |-> Rat(SignOf(t) * DigitsVal(ip \o fp), Pow10(Len(fp)))]
        ELSE [ok |-> FALSE, val |-> RatOfInt(0)]

----------------------------------------------------------------------------
(* What the microcontroller can put on the wire *)
RECURSIVE Str(_)
Str(n) == IF n < 10 THEN <<Digits[n + 1]>>
          ELSE Str(n \div 10) \o <<Digits[(n % 10) + 1]>>

(* a decimal number of tenths, printed with one decimal place *)
StrTenths(t) == Str(t \div 10) \o <<".">> \o Str(t % 10)

RECURSIVE JoinComma(_)
JoinComma(fs) ==
    IF Len(fs) = 1 THEN fs[1] ELSE fs[1] \o <<",">> \o JoinComma(Tail(fs))

(* rudderRaw,rpmRaw,gearCode,fuelRate with rudderRaw, rpmRaw in 0..POT_MAX *)
GoodFrames ==
    { [rudder |-> 0,       rpm |-> POT_MAX, gear |-> 1, fuel |-> 15, extra |-> FALSE],
      [rudder |-> POT_MAX, rpm |-> 0,       gear |-> 2, fuel |-> 30, extra |-> FALSE],
      [rudder |-> 1365,    rpm |-> 2730,    gear |-> 3, fuel |-> 0,  extra |-> TRUE] }

Encode(f) ==
    JoinComma(<<Str(f.rudder), Str(f.rpm), Str(f.gear), StrTenths(f.fuel)>>)
    \o (IF f.extra THEN <<",", "x">> ELSE <<>>) \o <<"LF">>

GoodLines == {Encode(f) : f \in GoodFrames}
FrameOf(b) == CHOOSE f \in GoodFrames : Encode(f) = b

ShortLines == { <<"7", ",", "8", ",", "2", "LF">> }
NonNumericLines ==
    { <<"x", ",", "8", ",", "2", ",", "1", ".", "5", "LF">>,
      <<"7", ",", "1", ".", "5", ",", "2", ",", "1", "LF">>,
      <<"7", ",", "8", ",", "N", ",", "1", ".", "5", "LF">>,
      <<"7", ",", "8", ",", "2", ",", "x", "LF">> }
BlankLines == { <<" ", "XFF", "LF">> }

Lines == GoodLines \cup ShortLines \cup NonNumericLines \cup BlankLines

(* outcomes of ser.readline(): an exception, a timeout (b""), or a line *)
Raises   == [kind |-> "raises", data |-> <<>>]
Bytes(b) == [kind |-> "bytes",  data |-> b]
Unread   == [kind |-> "unread", data |-> <<>>]

IsGood(r)       == r.kind = "bytes" /\ r.data \in GoodLines
IsMalformed(r)  == r.kind = "bytes" /\ r.data \in ShortLines \cup NonNumericLines

----------------------------------------------------------------------------
(* Mapping and smoothing *)
map_value_swapped(value, in_min, in_max, out_min, out_max) ==
    Rat((value - in_min) * (out_min - out_max) + out_max * (in_max - in_min),
        in_max - in_min)

(* (value - in_min) * (out_max - out_min) / (in_max - in_min) + out_min *)
map_value(value, in_min, in_max, out_min, out_max) ==
    Rat((value - in_min) * (out_max - out_min) + out_min * (in_max - in_min),
        in_max - in_min)

alpha == Rat(3, 10)

smooth_unweighted(new, smoothed) ==
    IF smoothed = RatOfInt(0) THEN new
    ELSE RatAdd(RatMul(alpha, new), smoothed)

(* lines 140-148: seed when the smoothed value is 0, otherwise            *)
(* alpha * new + (1 - alpha) * smoothed                                   *)
smooth(new, smoothed) ==
    IF smoothed = RatOfInt(0) THEN new
    ELSE RatAdd(RatMul(alpha, new),
                RatMul(RatAdd(RatOfInt(1), RatMul(RatOfInt(-1), alpha)),
                       smoothed))

----------------------------------------------------------------------------
(* Link manager *)
close_serial_drop ==
    /\ ser' = NoSerial
    /\ UNCHANGED closed

(* close the handle if there is one, swallow any error, forget it *)
close_serial ==
    /\ closed' = IF ser # NoSerial THEN closed \cup {ser} ELSE closed
    /\ ser' = NoSerial

try_open_serial_no_stamp ==
    /\ pc = "open"
    /\ pc' = "process"
    /\ LET now == clock IN
         IF ser # NoSerial \/ now - last_serial_try_time <
                                  SERIAL_RETRY_SECONDS * TicksPerSecond
         THEN UNCHANGED <<link, last_serial_try_time, attempts>>
         ELSE /\ attempts' = Append(attempts, now)
              /\ UNCHANGED last_serial_try_time
              /\ \E outcome \in {"open_fails", "reset_fails", "ok"} :
                   CASE outcome = "open_fails" ->
                          /\ ser' = NoSerial
                          /\ UNCHANGED <<opened, closed>>
                     [] outcome = "reset_fails" ->
                          /\ opened' = opened + 1
                          /\ ser' = NoSerial
                          /\ UNCHANGED closed
                     [] outcome = "ok" ->
                          /\ opened' = opened + 1
                          /\ ser' = opened + 1
                          /\ UNCHANGED closed
    /\ UNCHANGED <<clock, running, last_good_frame_time, display, raw,
                   locals, nlines>>

(* serial.Serial() may raise, and so may reset_input_buffer() on the      *)
(* handle just opened; both land in the handler that sets ser = None      *)
try_open_serial ==
    /\ pc = "open"
    /\ pc' = "process"
    /\ LET now == clock IN
         IF ser # NoSerial \/ now - last_serial_try_time <
                                  SERIAL_RETRY_SECONDS * TicksPerSecond
         THEN UNCHANGED <<link, last_serial_try_time, attempts>>
         ELSE /\ attempts' = Append(attempts, now)
              /\ last_serial_try_time' = now
              /\ \E outcome \in {"open_fails", "reset_fails", "ok"} :
                   CASE outcome = "open_fails" ->
                          /\ ser' = NoSerial
                          /\ UNCHANGED <<opened, closed>>
                     [] outcome = "reset_fails" ->
                          /\ opened' = opened + 1
                          /\ ser' = NoSerial
                          /\ UNCHANGED closed
                     [] outcome = "ok" ->
                          /\ opened' = opened + 1
                          /\ ser' = opened + 1
                          /\ UNCHANGED closed
    /\ UNCHANGED <<clock, running, last_good_frame_time, display, raw,
                   locals, nlines>>

----------------------------------------------------------------------------
(* Staleness fallback *)
set_no_data_state_keeps_gear ==
    /\ smoothed_rudder_angle' = RatOfInt(CENTER_RUDDER)
    /\ smoothed_engine_rpm' = RatOfInt(CENTER_RPM)
    /\ rudder_angle' = smoothed_rudder_angle'
    /\ engine_rpm' = smoothed_engine_rpm'
    /\ fuel_consumption' = <<>>
    /\ UNCHANGED shift_indicator

set_no_data_state ==
    /\ smoothed_rudder_angle' = RatOfInt(CENTER_RUDDER)
    /\ smoothed_engine_rpm' = RatOfInt(CENTER_RPM)
    /\ rudder_angle' = smoothed_rudder_angle'
    /\ engine_rpm' = smoothed_engine_rpm'
    /\ shift_indicator' = <<>>
    /\ fuel_consumption' = <<>>

NoDataDisplay ==
    <<RatOfInt(CENTER_RUDDER), RatOfInt(CENTER_RPM), RatOfInt(CENTER_RUDDER),
      RatOfInt(CENTER_RPM), <<>>, <<>> >>

----------------------------------------------------------------------------
(* Frame parser and smoother *)
ReadOutcomes ==
    {Raises, Bytes(<<>>)}
    \cup (IF nlines < MaxLines THEN {Bytes(l) : l \in Lines} ELSE {})

(* lines 131-154 on a line of at least four fields; a failing int() or    *)
(* float() raises ValueError out of the statement it is in, so the        *)
(* assignments before it have happened and the ones after it have not     *)
parse_and_update(values) ==
    LET f0 == py_int(values[1])
        f1 == py_int(values[2])
        f2 == py_int(values[3])
        f3 == py_float(values[4])
        a  == map_value(f0.val, 0, POT_MAX, TRIM_AT_POT_MIN, TRIM_AT_POT_MAX)
        r  == map_value(f1.val, 0, POT_MAX, 0, RPM_MAX)
    IN  IF ~f0.ok THEN
             /\ close_serial
             /\ UNCHANGED <<last_good_frame_time, display, locals>>
        ELSE IF ~f1.ok THEN
             /\ pot_value' = f0.val
             /\ close_serial
             /\ UNCHANGED <<last_good_frame_time, display, pot_value2,
                            new_rudder_angle, new_engine_rpm>>
        ELSE IF ~f2.ok THEN
             /\ pot_value' = f0.val
             /\ pot_value2' = f1.val
             /\ close_serial
             /\ UNCHANGED <<last_good_frame_time, display,
                            new_rudder_angle, new_engine_rpm>>
        ELSE IF ~f3.ok THEN
             /\ pot_value' = f0.val
             /\ pot_value2' = f1.val
             /\ shift_indicator' = <<f2.val>>
             /\ close_serial
             /\ UNCHANGED <<last_good_frame_time, rudder_angle, engine_rpm,
                            smoothed_rudder_angle, smoothed_engine_rpm,
                            fuel_consumption, new_rudder_angle,
                            new_engine_rpm>>
        ELSE /\ pot_value' = f0.val
             /\ pot_value2' = f1.val
             /\ shift_indicator' = <<f2.val>>
             /\ fuel_consumption' = <<f3.val>>
             /\ new_rudder_angle' = a
             /\ new_engine_rpm' = r
             /\ smoothed_engine_rpm' = smooth(r, smoothed_engine_rpm)
             /\ smoothed_rudder_angle' = smooth(a, smoothed_rudder_angle)
             /\ rudder_angle' = smoothed_rudder_angle'
             /\ engine_rpm' = smoothed_engine_rpm'
             /\ last_good_frame_time' = clock
             /\ UNCHANGED <<ser, closed>>

process_serial_data ==
    /\ pc = "process"
    /\ pc' = "stale"
    /\ IF ser = NoSerial
       THEN UNCHANGED <<link, last_good_frame_time, display, raw, locals,
                        nlines>>
       ELSE \E r \in ReadOutcomes :
              /\ raw' = r
              /\ nlines' = IF r.kind = "bytes" /\ r.data # <<>>
                           THEN nlines + 1 ELSE nlines
              /\ UNCHANGED opened
              /\ IF r.kind = "raises" THEN
                      /\ close_serial
                      /\ UNCHANGED <<last_good_frame_time, display, locals>>
                 ELSE IF r.data = <<>> THEN
                      UNCHANGED <<ser, closed, last_good_frame_time, display,
                                  locals>>
                 ELSE LET data   == strip(decode(r.data))
                          values == split(data)
                      IN  IF data = <<>> \/ Len(values) < MIN_FIELDS
                          THEN UNCHANGED <<ser, closed, last_good_frame_time,
                                           display, locals>>
                          ELSE parse_and_update(values)
    /\ UNCHANGED <<clock, running, last_serial_try_time, attempts>>

----------------------------------------------------------------------------
(* Render loop, lines 367-393, and the shutdown sequence, lines 395-398 *)

(* lines 368-372: a QUIT event, the escape key or the button pin read low *)
(* clears the flag; the rest of the iteration still runs                  *)
PollEvents ==
    /\ pc = "events"
    /\ \E event \in {"none", "QUIT", "K_ESCAPE"}, pin \in {"HIGH", "LOW"} :
         running' = IF event # "none" \/ pin = "LOW" THEN FALSE ELSE running
    /\ pc' = "open"
    /\ UNCHANGED <<clock, link, last_serial_try_time, last_good_frame_time,
                   display, raw, locals, nlines, attempts>>

(* lines 379-381 *)
StaleCheck ==
    /\ pc = "stale"
    /\ pc' = "draw"
    /\ LET now == clock IN
         IF now - last_good_frame_time > DATA_STALE_SECONDS * TicksPerSecond
         THEN set_no_data_state
         ELSE UNCHANGED display
    /\ UNCHANGED <<clock, running, link, last_serial_try_time,
                   last_good_frame_time, raw, locals, nlines, attempts>>

(* lines 383-393 and the loop test: the gauges are drawn from rudder_angle *)
(* and smoothed_engine_rpm, which the drawing leaves alone                 *)
Draw ==
    /\ pc = "draw"
    /\ pc' = IF running THEN "events" ELSE "spawn"
    /\ UNCHANGED <<clock, running, link, last_serial_try_time,
                   last_good_frame_time, display, raw, locals, nlines,
                   attempts>>

(* line 395: subprocess.Popen raises OSError when the panel binary cannot  *)
(* be started; nothing catches it, so the script ends there                *)
SpawnPanel ==
    /\ pc = "spawn"
    /\ \E spawned \in BOOLEAN : pc' = IF spawned THEN "close" ELSE "crashed"
    /\ UNCHANGED <<clock, running, link, last_serial_try_time,
                   last_good_frame_time, display, raw, locals, nlines,
                   attempts>>

(* lines 396-398 *)
Shutdown ==
    /\ pc = "close"
    /\ close_serial
    /\ pc' = "done"
    /\ UNCHANGED <<clock, running, opened, last_serial_try_time,
                   last_good_frame_time, display, raw, locals, nlines,
                   attempts>>

(* time.monotonic() moves forward between any two statements *)
Advance ==
    /\ pc \notin {"done", "crashed", "map", "mapped"}
    /\ clock < MaxTime
    /\ clock' = clock + 1
    /\ UNCHANGED <<pc, running, link, last_serial_try_time,
                   last_good_frame_time, display, raw, locals, nlines,
                   attempts>>

(* state at line 366: globals of lines 49-60, then set_no_data_state()    *)
(* and last_good_frame_time = time.monotonic() of lines 363-364           *)
Init ==
    /\ pc = "events"
    /\ clock \in 0..(SERIAL_RETRY_SECONDS * TicksPerSecond)
    /\ running = TRUE
    /\ ser = NoSerial
    /\ opened = 0
    /\ closed = {}
    /\ last_serial_try_time = 0
    /\ last_good_frame_time = clock
    /\ smoothed_rudder_angle = RatOfInt(CENTER_RUDDER)
    /\ smoothed_engine_rpm = RatOfInt(CENTER_RPM)
    /\ rudder_angle = smoothed_rudder_angle
    /\ engine_rpm = smoothed_engine_rpm
    /\ shift_indicator = <<>>
    /\ fuel_consumption = <<>>
    /\ raw = Unread
    /\ pot_value = 0
    /\ pot_value2 = 0
    /\ new_rudder_angle = RatOfInt(0)
    /\ new_engine_rpm = RatOfInt(0)
    /\ nlines = 0
    /\ attempts = <<>>

Next ==
    \/ PollEvents
    \/ try_open_serial
    \/ process_serial_data
    \/ StaleCheck
    \/ Draw
    \/ SpawnPanel
    \/ Shutdown
    \/ Advance

Spec == Init /\ [][Next]_vars

----------------------------------------------------------------------------
(* The mapping as a function of its own: inputs drawn from the whole pot   *)
(* range, one step applying lines 136-137                                  *)
MapProbes == {0, 1, 2047, 2048, 4094, POT_MAX}

InitMap ==
    /\ pc = "map"
    /\ pot_value \in 0..POT_MAX
    /\ pot_value2 \in MapProbes
    /\ clock = 0
    /\ running = TRUE
    /\ ser = NoSerial
    /\ opened = 0
    /\ closed = {}
    /\ last_serial_try_time = 0
    /\ last_good_frame_time = 0
    /\ smoothed_rudder_angle = RatOfInt(CENTER_RUDDER)
    /\ smoothed_engine_rpm = RatOfInt(CENTER_RPM)
    /\ rudder_angle = smoothed_rudder_angle
    /\ engine_rpm = smoothed_engine_rpm
    /\ shift_indicator = <<>>
    /\ fuel_consumption = <<>>
    /\ raw = Unread
    /\ new_rudder_angle = RatOfInt(0)
    /\ new_engine_rpm = RatOfInt(0)
    /\ nlines = 0
    /\ attempts = <<>>

MapStep ==
    /\ pc = "map"
    /\ pc' = "mapped"
    /\ new_rudder_angle' =
           map_value(pot_value, 0, POT_MAX, TRIM_AT_POT_MIN, TRIM_AT_POT_MAX)
    /\ new_engine_rpm' = map_value(pot_value2, 0, POT_MAX, 0, RPM_MAX)
    /\ UNCHANGED <<clock, running, link, last_serial_try_time,
                   last_good_frame_time, display, raw, pot_value, pot_value2,
                   nlines, attempts>>

NextMap == MapStep

SpecMap == InitMap /\ [][NextMap]_vars

----------------------------------------------------------------------------
(* Properties *)
StaleAfter == DATA_STALE_SECONDS * TicksPerSecond
RetryAfter == SERIAL_RETRY_SECONDS * TicksPerSecond

(* a step that is one call of process_serial_data / try_open_serial *)
ProcessCall == pc = "process" /\ pc' = "stale"
OpenCall    == pc = "open" /\ pc' = "process"
(* a call of process_serial_data in which this line was read *)
Reads(r)    == ProcessCall /\ ser # NoSerial /\ raw' = r
ReadsGood   == ProcessCall /\ ser # NoSerial /\ IsGood(raw')

(* the mapped values the wire format prescribes for a frame, over 4095 *)
AngleTimes4095(rudderRaw) == 240 * 4095 - 120 * rudderRaw
RpmTimes4095(rpmRaw)      == 6000 * rpmRaw
IsOver4095(x, n)          == 4095 % x[2] = 0 /\ x[1] * (4095 \div x[2]) = n
IsAngleOf(x, rudderRaw)   == IsOver4095(x, AngleTimes4095(rudderRaw))
IsRpmOf(x, rpmRaw)        == IsOver4095(x, RpmTimes4095(rpmRaw))

(* C1: process_serial_data changes the six displayed variables only when   *)
(* it read a line of at least four fields that all parse; a short line or  *)
(* one with a non-numeric field leaves all six as they were.               *)
C1_NoPartialMutation ==
    [][(ProcessCall /\ ~ReadsGood) => display' = display]_vars

(* C2: the first valid frame processed while the display holds the         *)
(* no-data defaults seeds the smoother: the smoothed values become the     *)
(* mapped raw values of that frame.                                        *)
C2_FirstFrameSeeds ==
    [][(ReadsGood /\ display = NoDataDisplay) =>
          /\ IsAngleOf(smoothed_rudder_angle', FrameOf(raw'.data).rudder)
          /\ IsRpmOf(smoothed_engine_rpm', FrameOf(raw'.data).rpm)]_vars

(* C3: whenever the staleness check runs more than 1.0s after the last     *)
(* good frame, the gauges are drawn from the no-data defaults, whatever    *)
(* was displayed before, on every such tick.                               *)
C3_StaleForcesNoData ==
    [][(pc = "stale" /\ pc' = "draw"
        /\ clock - last_good_frame_time > StaleAfter)
       => display' = NoDataDisplay]_vars

C3_Witness ==
    /\ pc = "draw"
    /\ IsGood(raw)
    /\ opened > 0
    /\ clock - last_good_frame_time > StaleAfter
    /\ display = NoDataDisplay

(* C4: consecutive open attempts are at least 2.0s apart, an attempt is    *)
(* made only when disconnected, and a call made while connected or inside  *)
(* the cooldown changes neither the handle nor last_serial_try_time.       *)
C4_Cooldown ==
    [][OpenCall =>
          /\ \A i \in 1..(Len(attempts') - 1) :
                 attempts'[i + 1] - attempts'[i] >= RetryAfter
          /\ attempts' # attempts => ser = NoSerial
          /\ (ser # NoSerial \/ clock - last_serial_try_time < RetryAfter)
                 => UNCHANGED <<ser, opened, closed, last_serial_try_time,
                                attempts>>]_vars

C4_Witness ==
    /\ Len(attempts) >= 2
    /\ closed # {}
    /\ ser # NoSerial

(* C5: a read that raises is absorbed: the call returns, the handle is     *)
(* closed and forgotten, display and last_good_frame_time are untouched,   *)
(* the loop goes on, and try_open_serial on a disconnected link attempts   *)
(* the open exactly when the cooldown has elapsed.                         *)
C5_ReadFault ==
    [][/\ (pc = "process" /\ clock' = clock /\ ser # NoSerial
           /\ raw' = Raises)
          => /\ pc' = "stale"
             /\ ser' = NoSerial
             /\ ser \in closed'
             /\ display' = display
             /\ last_good_frame_time' = last_good_frame_time
             /\ last_serial_try_time' = last_serial_try_time
             /\ running' = running
       /\ (OpenCall /\ ser = NoSerial)
          => ((attempts' # attempts)
                 <=> clock - last_serial_try_time >= RetryAfter)]_vars

C5_Witness ==
    /\ pc = "process"
    /\ raw = Raises
    /\ ser # NoSerial
    /\ Len(attempts) >= 2

(* C6: a short or non-numeric line leaves the link as it was: same open    *)
(* handle, same last_serial_try_time.                                      *)
C6_MalformedKeepsLink ==
    [][(ProcessCall /\ ser # NoSerial /\ IsMalformed(raw'))
       => /\ ser' = ser
          /\ closed' = closed
          /\ last_serial_try_time' = last_serial_try_time]_vars

(* C7: every handle that was opened and is no longer referred to by ser    *)
(* has been closed, and when the script has ended every handle is closed.  *)
C7_NoLeak ==
    /\ \A h \in 1..opened : h \notin closed => ser = h
    /\ pc \in {"done", "crashed"} => \A h \in 1..opened : h \in closed

(* C8: last_good_frame_time changes only in a call of process_serial_data  *)
(* that read a line of at least four fields that all parse.                *)
C8_FreshOnlyFromValid ==
    [][last_good_frame_time' # last_good_frame_time
       => (ReadsGood /\ last_good_frame_time' = clock)]_vars

C8_Witness ==
    /\ pc = "stale"
    /\ IsMalformed(raw)
    /\ opened > 0
    /\ last_good_frame_time < clock

(* C9: the mapped values are exactly 240 - 120*raw/4095 and 6000*raw/4095, *)
(* with the stated end points, and a larger raw rudder value never gives a *)
(* larger angle.                                                           *)
C9_ExactMapping ==
    pc = "mapped" =>
       /\ IsAngleOf(new_rudder_angle, pot_value)
       /\ IsRpmOf(new_engine_rpm, pot_value2)
       /\ pot_value = 0 => new_rudder_angle = RatOfInt(240)
       /\ pot_value = 4095 => new_rudder_angle = RatOfInt(120)
       /\ pot_value2 = 0 => new_engine_rpm = RatOfInt(0)
       /\ pot_value2 = 4095 => new_engine_rpm = RatOfInt(6000)
       /\ pot_value <= pot_value2 =>
              RatLeq(map_value(pot_value2, 0, POT_MAX, TRIM_AT_POT_MIN,
                               TRIM_AT_POT_MAX), new_rudder_angle)

C9_Witness ==
    /\ pc = "mapped"
    /\ pot_value = 2047
    /\ pot_value2 = 4095
    /\ new_engine_rpm = RatOfInt(6000)

(* C10: at every draw the needles are on scale: rudder_angle equals the    *)
(* smoothed angle and lies in 120..240, engine_rpm equals the smoothed rpm *)
(* and lies in 0..6000.                                                    *)
C10_OnScale ==
    pc = "draw" =>
       /\ rudder_angle = smoothed_rudder_angle
       /\ engine_rpm = smoothed_engine_rpm
       /\ RatLeq(RatOfInt(120), rudder_angle)
       /\ RatLeq(rudder_angle, RatOfInt(240))
       /\ RatLeq(RatOfInt(0), smoothed_engine_rpm)
       /\ RatLeq(smoothed_engine_rpm, RatOfInt(6000))

C10_Witness ==
    /\ pc = "draw"
    /\ closed # {}
    /\ nlines >= 2
    /\ ser # NoSerial
    /\ IsGood(raw)
    /\ rudder_angle # RatOfInt(CENTER_RUDDER)

====
